---- MODULE Spec2Model ----
(***************************************************************************)
(* Model of the clustering and scoring core of content-monitor.py:         *)
(* ContentMonitor._extract_keywords, _calculate_similarity,                *)
(* cluster_topics, score_cluster, generate_suggestions, _generate_headline *)
(* and _generate_angle.                                                    *)
(*                                                                         *)
(* Texts are TLA+ strings handled character by character.  Floats are      *)
(* kept exact: a similarity is the fraction [num, den], a topic weight is  *)
(* a number of tenths and a score a number of hundredths.                  *)
(***************************************************************************)
EXTENDS Integers, Sequences, FiniteSets, TLC

VARIABLES
    pc,             \* position in main(): which call or loop test is next
    feeds_data,     \* result of fetch_feeds(): feeds in dict order
    topic_weights,  \* self.topic_weights: topic -> weight in tenths
    all_entries,    \* cluster_topics: all_entries
    used,           \* cluster_topics: used (positions, 1-based)
    i,              \* cluster_topics: outer loop index (1-based)
    j,              \* cluster_topics: inner loop index (1-based)
    cluster,        \* cluster_topics: the cluster being built
    clusters,       \* cluster_topics: clusters / argument of generate_suggestions
    similarity,     \* cluster_topics: similarity / result of _calculate_similarity
    suggestions,    \* result of generate_suggestions
    keywords1,      \* _calculate_similarity: first argument
    keywords2       \* _calculate_similarity: second argument

vars == <<pc, feeds_data, topic_weights, all_entries, used, i, j, cluster,
          clusters, similarity, suggestions, keywords1, keywords2>>

----------------------------------------------------------------------------
(* Characters and strings                                                  *)

LowerCase == "abcdefghijklmnopqrstuvwxyz"
UpperCase == "ABCDEFGHIJKLMNOPQRSTUVWXYZ"
Digits == "0123456789"

Char(s, p) == SubSeq(s, p, p)
Chars(s) == {Char(s, p) : p \in 1..Len(s)}
IndexOf(c, s) == CHOOSE p \in 1..Len(s) : Char(s, p) = c

LowerSet == Chars(LowerCase)
UpperSet == Chars(UpperCase)
\* \w of the re module restricted to ASCII
WordChars == LowerSet \cup UpperSet \cup Chars(Digits) \cup {"_"}

\* str.lower() on one ASCII character
ToLowerChar(c) == IF c \in UpperSet THEN Char(LowerCase, IndexOf(c, UpperCase)) ELSE c
\* str.upper() on one ASCII character
ToUpperChar(c) == IF c \in LowerSet THEN Char(UpperCase, IndexOf(c, LowerCase)) ELSE c

RECURSIVE StrLowerFrom(_, _)
StrLowerFrom(s, p) ==
    IF p > Len(s) THEN ""
    ELSE ToLowerChar(Char(s, p)) \o StrLowerFrom(s, p + 1)

\* text.lower()
StrLower(s) == StrLowerFrom(s, 1)

\* last position of the maximal run of \w characters starting at p
RECURSIVE RunEnd(_, _)
RunEnd(s, p) ==
    IF p <= Len(s) /\ Char(s, p) \in WordChars THEN RunEnd(s, p + 1) ELSE p - 1

IsKeywordRun(w) == Len(w) >= 3 /\ \A k \in 1..Len(w) : Char(w, k) \in LowerSet

\* re.findall(r'\b[a-z]{3,}\b', s): \b holds only at the ends of a maximal
\* run of \w characters, so a match is such a run made of [a-z] only and of
\* length >= 3
RECURSIVE FindAllFrom(_, _)
FindAllFrom(s, p) ==
    IF p > Len(s) THEN <<>>
    ELSE IF Char(s, p) \notin WordChars THEN FindAllFrom(s, p + 1)
    ELSE LET q == RunEnd(s, p)
             w == SubSeq(s, p, q)
         IN  (IF IsKeywordRun(w) THEN <<w>> ELSE <<>>) \o FindAllFrom(s, q + 1)

stop_words == {
    "the", "a", "an", "and", "or", "but", "in", "on", "at", "to", "for",
    "of", "with", "by", "from", "as", "is", "was", "are", "were", "been",
    "be", "have", "has", "had", "do", "does", "did", "will", "would", "should",
    "could", "may", "might", "can", "this", "that", "these", "those", "i", "you",
    "he", "she", "it", "we", "they", "what", "which", "who", "when", "where",
    "why", "how", "all", "each", "every", "both", "few", "more", "most", "other",
    "some", "such", "no", "nor", "not", "only", "own", "same", "so", "than", "too",
    "very", "just", "now", "new" }

NotStopWord(w) == w \notin stop_words

\* _extract_keywords(text)
ExtractKeywords(text) == SelectSeq(FindAllFrom(StrLower(text), 1), NotStopWord)

Range(s) == {s[k] : k \in 1..Len(s)}

----------------------------------------------------------------------------
(* _calculate_similarity                                                   *)

\* the float 0.0
Zero == [num |-> 0, den |-> 1]

\* comparisons of two fractions with positive denominators
FloatEq(x, y) == x.num * y.den = y.num * x.den
FloatGt(x, y) == x.num * y.den > y.num * x.den

\* _calculate_similarity with the size of the union taken from the lengths
\* of the lists instead of the sets
CalculateSimilarityLen(kws1, kws2) ==
    IF kws1 = <<>> \/ kws2 = <<>> THEN Zero
    ELSE LET set1 == Range(kws1)
             set2 == Range(kws2)
             intersection == Cardinality(set1 \cap set2)
             union == Len(kws1) + Len(kws2) - intersection
         IN  IF union > 0 THEN [num |-> intersection, den |-> union] ELSE Zero

\* _calculate_similarity taking two empty keyword lists as identical
CalculateSimilarityEmptyIsOne(kws1, kws2) ==
    IF kws1 = <<>> /\ kws2 = <<>> THEN [num |-> 1, den |-> 1]
    ELSE LET set1 == Range(kws1)
             set2 == Range(kws2)
             intersection == Cardinality(set1 \cap set2)
             union == Cardinality(set1 \cup set2)
         IN  IF union > 0 THEN [num |-> intersection, den |-> union] ELSE Zero

\* _calculate_similarity(keywords1, keywords2): intersection / union
CalculateSimilarity(kws1, kws2) ==
    IF kws1 = <<>> \/ kws2 = <<>> THEN Zero
    ELSE LET set1 == Range(kws1)
             set2 == Range(kws2)
             intersection == Cardinality(set1 \cap set2)
             union == Cardinality(set1 \cup set2)
         IN  IF union > 0 THEN [num |-> intersection, den |-> union] ELSE Zero

\* the literal 0.15 of cluster_topics
Threshold == [num |-> 15, den |-> 100]

----------------------------------------------------------------------------
(* collections.Counter, kept in insertion order                            *)

CounterAdd(c, w) ==
    IF \E k \in 1..Len(c) : c[k].kw = w
    THEN [k \in 1..Len(c) |-> IF c[k].kw = w THEN [kw |-> w, n |-> c[k].n + 1] ELSE c[k]]
    ELSE Append(c, [kw |-> w, n |-> 1])

\* Counter.update(iterable); Counter(iterable) is CounterUpdate(<<>>, iterable)
RECURSIVE CounterUpdate(_, _)
CounterUpdate(c, ws) ==
    IF ws = <<>> THEN c ELSE CounterUpdate(CounterAdd(c, Head(ws)), Tail(ws))

\* position of element k of c once c is sorted by descending count, the
\* elements of equal count staying in their order
CountRank(c, k) ==
    Cardinality({m \in 1..Len(c) : c[m].n > c[k].n \/ (c[m].n = c[k].n /\ m < k)}) + 1

\* [kw for kw, _ in Counter.most_common(n)]
MostCommon(c, n) ==
    LET sorted == [r \in 1..Len(c) |-> c[CHOOSE k \in 1..Len(c) : CountRank(c, k) = r].kw]
    IN  SubSeq(sorted, 1, IF Len(c) < n THEN Len(c) ELSE n)

----------------------------------------------------------------------------
(* cluster_topics: building blocks                                         *)

\* the entries one feed contributes to all_entries (without identity)
FeedEntries(feed) ==
    [k \in 1..Len(feed.entries) |->
        [title |-> feed.entries[k].title,
         summary |-> feed.entries[k].summary,
         source |-> feed.name,
         source_topics |-> feed.topics,
         keywords |-> ExtractKeywords(feed.entries[k].title \o " " \o feed.entries[k].summary)]]

RECURSIVE Flatten(_)
Flatten(feeds) ==
    IF feeds = <<>> THEN <<>> ELSE FeedEntries(Head(feeds)) \o Flatten(Tail(feeds))

\* all_entries after the collecting loop; id stands for the identity of the
\* dict object appended at that position
CollectAllEntries(feeds) ==
    LET flat == Flatten(feeds)
    IN  [k \in 1..Len(flat) |->
            [id |-> k,
             title |-> flat[k].title,
             summary |-> flat[k].summary,
             source |-> flat[k].source,
             source_topics |-> flat[k].source_topics,
             keywords |-> flat[k].keywords]]

\* the cluster dict created for a seed entry
NewCluster(entry) ==
    [entries |-> <<entry>>,
     keywords |-> CounterUpdate(<<>>, entry.keywords),
     sources |-> {entry.source},
     topics |-> Range(entry.source_topics)]

\* the four updates made when another entry joins the cluster
AddToCluster(c, other) ==
    [entries |-> Append(c.entries, other),
     keywords |-> CounterUpdate(c.keywords, other.keywords),
     sources |-> c.sources \cup {other.source},
     topics |-> c.topics \cup Range(other.source_topics)]

----------------------------------------------------------------------------
(* score_cluster                                                           *)

\* the default 0.3 of topic_weights.get(topic, 0.3), in tenths
DefaultWeight == 3

\* self.topic_weights.get(topic, 0.3), in tenths
WeightOf(topic) ==
    IF topic \in DOMAIN topic_weights THEN topic_weights[topic] ELSE DefaultWeight

\* the loop adding up the weights of the topics, in tenths
RECURSIVE SumWeights(_)
SumWeights(topics) ==
    IF topics = {} THEN 0
    ELSE LET t == CHOOSE x \in topics : TRUE
         IN  WeightOf(t) + SumWeights(topics \ {t})

\* topic_score * source_multiplier * entry_multiplier, in hundredths, is
\* ScoreNum / ScoreDen: topic_score is tenths / (10 * |topics|), the source
\* multiplier (10 + 3 * (|sources| - 1)) / 10 and the entry multiplier
\* (10 + (|entries| - 1)) / 10
\* the entry multiplier taken as 1 + 0.1 * |entries|
ScoreNumEntryCount(c) ==
    (IF c.topics # {} THEN SumWeights(c.topics) ELSE DefaultWeight)
        * (10 + (Cardinality(c.sources) - 1) * 3)
        * (10 + Len(c.entries))

ScoreNum(c) ==
    (IF c.topics # {} THEN SumWeights(c.topics) ELSE DefaultWeight)
        * (10 + (Cardinality(c.sources) - 1) * 3)
        * (10 + (Len(c.entries) - 1))

ScoreDen(c) == 10 * (IF c.topics # {} THEN Cardinality(c.topics) ELSE 1)

\* the exact product lies halfway between two hundredths
IsTie(c) == 2 * (ScoreNum(c) % ScoreDen(c)) = ScoreDen(c)

\* round(x, 2) of x = num / den hundredths.  On a tie the direction depends
\* on the binary rounding error of the float product, which the exact
\* arithmetic of the model does not carry: up tells which way it goes.
Round2(num, den, up) ==
    LET q == num \div den
        r == num % den
    IN  IF 2 * r > den THEN q + 1
        ELSE IF 2 * r < den THEN q
        ELSE IF up THEN q + 1 ELSE q

\* score_cluster(cluster), in hundredths
ScoreCluster(c, up) == Round2(ScoreNum(c), ScoreDen(c), up)

----------------------------------------------------------------------------
(* _generate_angle, _generate_headline                                     *)

AngleVoiceAI == "Connect this to vCon and AI-powered voice intelligence in telecom"
AngleVoip == "How this impacts the VoIP/UCaaS industry and vCon adoption"
AngleDevTools == "Developer perspective: practical applications and tooling"
AngleBridge == "Bridge this AI development with telecom/voice applications"
AngleGeneric == "Industry implications and practical takeaways for technical leaders"

\* _generate_angle with the AI rule tried before the voice/telecom rule
GenerateAngleAIFirst(c) ==
    LET topics == c.topics
    IN  IF "ai" \in topics \/ "llm" \in topics \/ "ai-agents" \in topics
        THEN IF "dev-tools" \in topics THEN AngleDevTools ELSE AngleBridge
        ELSE IF \E t \in {"voip", "telecom", "vcon", "voice-intelligence"} : t \in topics
        THEN IF "ai" \in topics THEN AngleVoiceAI ELSE AngleVoip
        ELSE AngleGeneric

\* _generate_angle with "voice-intelligence" missing from the first rule
GenerateAngleNoVoiceIntelligence(c) ==
    LET topics == c.topics
    IN  IF \E t \in {"voip", "telecom", "vcon"} : t \in topics
        THEN IF "ai" \in topics THEN AngleVoiceAI ELSE AngleVoip
        ELSE IF "ai" \in topics \/ "llm" \in topics \/ "ai-agents" \in topics
        THEN IF "dev-tools" \in topics THEN AngleDevTools ELSE AngleBridge
        ELSE AngleGeneric

\* _generate_angle(cluster)
GenerateAngle(c) ==
    LET topics == c.topics
    IN  IF \E t \in {"voip", "telecom", "vcon", "voice-intelligence"} : t \in topics
        THEN IF "ai" \in topics THEN AngleVoiceAI ELSE AngleVoip
        ELSE IF "ai" \in topics \/ "llm" \in topics \/ "ai-agents" \in topics
        THEN IF "dev-tools" \in topics THEN AngleDevTools ELSE AngleBridge
        ELSE AngleGeneric

\* str.title() of a word of letters
TitleWord(w) ==
    IF w = "" THEN "" ELSE ToUpperChar(Char(w, 1)) \o StrLower(Tail(w))

\* " ".join(words).title() for words of letters
RECURSIVE JoinTitle(_)
JoinTitle(words) ==
    IF words = <<>> THEN ""
    ELSE IF Len(words) = 1 THEN TitleWord(words[1])
    ELSE TitleWord(words[1]) \o " " \o JoinTitle(Tail(words))

\* _generate_headline taking the title of the last entry
GenerateHeadlineLast(c, keywords) ==
    IF c.entries # <<>>
    THEN c.entries[Len(c.entries)].title
    ELSE JoinTitle(SubSeq(keywords, 1, IF Len(keywords) < 3 THEN Len(keywords) ELSE 3))

\* _generate_headline(cluster, keywords)
GenerateHeadline(c, keywords) ==
    IF c.entries # <<>>
    THEN c.entries[1].title
    ELSE JoinTitle(SubSeq(keywords, 1, IF Len(keywords) < 3 THEN Len(keywords) ELSE 3))

----------------------------------------------------------------------------
(* generate_suggestions                                                    *)

\* the characters of the model's strings in code point order
CodeOrder == " -0123456789ABCDEFGHIJKLMNOPQRSTUVWXYZ_abcdefghijklmnopqrstuvwxyz"

\* a < b on str
RECURSIVE StrLess(_, _)
StrLess(a, b) ==
    IF b = "" THEN FALSE
    ELSE IF a = "" THEN TRUE
    ELSE IF Char(a, 1) = Char(b, 1) THEN StrLess(Tail(a), Tail(b))
    ELSE IndexOf(Char(a, 1), CodeOrder) < IndexOf(Char(b, 1), CodeOrder)

\* sorted(set of str)
RECURSIVE Sorted(_)
Sorted(S) ==
    IF S = {} THEN <<>>
    ELSE LET m == CHOOSE x \in S : \A y \in S \ {x} : StrLess(x, y)
         IN  <<m>> \o Sorted(S \ {m})

\* the suggestion dict built for one cluster
Suggestion(c, up) ==
    LET top_keywords == MostCommon(c.keywords, 5)
    IN  [score |-> ScoreCluster(c, up),
         headline |-> GenerateHeadline(c, top_keywords),
         sources |-> Sorted(c.sources),
         topics |-> Sorted(c.topics),
         angle |-> GenerateAngle(c),
         entries |-> c.entries]

\* the position after an ascending sort followed by a reversal, which
\* reverses the elements of equal score
SortRankReversed(s, k) ==
    Cardinality({m \in 1..Len(s) :
        s[m].score > s[k].score \/ (s[m].score = s[k].score /\ m > k)}) + 1

\* position of element k of s after s.sort(key = score, reverse = True):
\* list.sort is stable, also with reverse = True
SortRank(s, k) ==
    Cardinality({m \in 1..Len(s) :
        s[m].score > s[k].score \/ (s[m].score = s[k].score /\ m < k)}) + 1

\* suggestions.sort(key=lambda x: x["score"], reverse=True)
SortByScore(s) ==
    [r \in 1..Len(s) |-> s[CHOOSE k \in 1..Len(s) : SortRank(s, k) = r]]

\* the number of suggestions kept by suggestions[:5]
TopN == 5

\* suggestions[:5]
Truncate(s) == SubSeq(s, 1, IF Len(s) < TopN THEN Len(s) ELSE TopN)

----------------------------------------------------------------------------
(* Inputs                                                                  *)

\* most entries over all feeds of one run
MaxEntries == 3
\* most clusters handed to generate_suggestions directly
MaxClusters == 6
\* longest keyword list handed to _calculate_similarity directly
MaxKeywords == 3

\* raw entries as fetch_feeds stores them (title, summary)
DocVoiceRise == [title |-> "AI voice agents rise", summary |-> "AI agents transform telecom"]
DocAgentTools == [title |-> "New AI agent tools", summary |-> "AI agents transform telecom"]
DocVoiceAgents == [title |-> "Voice agents telecom", summary |-> ""]
DocNoKeywords == [title |-> "AI", summary |-> ""]
DocRise == [title |-> "Rise and transform", summary |-> "The rise"]
DocLong ==
    [title |-> "Voice agents telecom stack",
     summary |-> "sip pbx api sdk llm gpu cpu ram ssd dns tcp udp tls ssh"]

Docs == {DocVoiceRise, DocAgentTools, DocVoiceAgents, DocNoKeywords, DocRise, DocLong}

\* a feed of feeds_data
Feed(name, topics, entries) == [name |-> name, topics |-> topics, entries |-> entries]

\* feeds_data of a run whose entries are docs, the first a of them fetched
\* from feed A, the next b - a from feed B and the rest from feed C
FeedsData(docs, a, b) ==
    << Feed("A", <<"ai", "telecom">>, SubSeq(docs, 1, a)),
       Feed("B", <<"ai", "dev-tools">>, SubSeq(docs, a + 1, b)),
       Feed("C", <<>>, SubSeq(docs, b + 1, Len(docs))) >>

DocSeqs == UNION {[1..n -> Docs] : n \in 0..MaxEntries}

\* the two-entry scenario: one entry from A, one from B
ScenarioFeeds == FeedsData(<<DocVoiceRise, DocAgentTools>>, 1, 2)

\* topic weight mappings, in tenths; <<>> is the empty mapping
WeightInputs == { <<>>, ("ai" :> 10), ("ai" :> 10) @@ ("telecom" :> 8), ("ai" :> 0) @@ ("telecom" :> 0) }

\* the cluster cluster_topics builds from the entries protos when they all
\* join the first; ids start at first
MakeCluster(protos, first) ==
    LET entry(k) == [id |-> first + k - 1,
                     title |-> protos[k].title,
                     summary |-> protos[k].summary,
                     source |-> protos[k].source,
                     source_topics |-> protos[k].source_topics,
                     keywords |-> protos[k].keywords]
        build[k \in 1..Len(protos)] ==
            IF k = 1 THEN NewCluster(entry(1)) ELSE AddToCluster(build[k - 1], entry(k))
    IN  build[Len(protos)]

RECURSIVE MakeClusters(_, _)
MakeClusters(shapes, first) ==
    IF shapes = <<>> THEN <<>>
    ELSE <<MakeCluster(Head(shapes), first)>>
            \o MakeClusters(Tail(shapes), first + Len(Head(shapes)))

\* entry lists that cluster_topics puts into one cluster
Shapes ==
    { Flatten(FeedsData(<<DocVoiceRise>>, 1, 1)),
      Flatten(FeedsData(<<DocVoiceRise, DocAgentTools>>, 1, 2)),
      Flatten(FeedsData(<<DocAgentTools, DocAgentTools>>, 0, 2)) }

TopicUniverse ==
    {"voip", "telecom", "vcon", "voice-intelligence", "ai", "llm", "ai-agents",
     "dev-tools", "security"}

\* a single entry of a feed whose topics are T
TopicShape(T) == FeedEntries(Feed("T", Sorted(T), <<DocVoiceAgents>>))

ClusterInputs ==
    {MakeClusters(shapes, 1) : shapes \in UNION {[1..n -> Shapes] : n \in 0..MaxClusters}}
    \cup {MakeClusters(<<TopicShape(T)>>, 1) : T \in SUBSET TopicUniverse}

KeywordTokens == {"voice", "agents", "telecom"}
KeywordSeqs == UNION {[1..n -> KeywordTokens] : n \in 0..MaxKeywords}

NoCluster == [entries |-> <<>>, keywords |-> <<>>, sources |-> {}, topics |-> {}]

----------------------------------------------------------------------------
(* main(): cluster_topics then generate_suggestions                        *)

Init ==
    /\ pc = "cluster_topics"
    /\ \E docs \in DocSeqs : \E a \in 0..Len(docs) : \E b \in a..Len(docs) :
          feeds_data = FeedsData(docs, a, b)
    /\ topic_weights = <<>>
    /\ all_entries = <<>>
    /\ used = {}
    /\ i = 1
    /\ j = 1
    /\ cluster = NoCluster
    /\ clusters = <<>>
    /\ similarity = Zero
    /\ suggestions = <<>>
    /\ keywords1 = <<>>
    /\ keywords2 = <<>>

\* cluster_topics, lines 172-189: collect all entries with metadata
CollectEntries ==
    /\ pc = "cluster_topics"
    /\ all_entries' = CollectAllEntries(feeds_data)
    /\ clusters' = <<>>
    /\ used' = {}
    /\ i' = 1
    /\ pc' = "outer"
    /\ UNCHANGED <<feeds_data, topic_weights, j, cluster, similarity, suggestions,
                   keywords1, keywords2>>

\* outer loop: if i in used: continue
OuterSkip ==
    /\ pc = "outer"
    /\ i <= Len(all_entries)
    /\ i \in used
    /\ i' = i + 1
    /\ UNCHANGED <<pc, feeds_data, topic_weights, all_entries, used, j, cluster,
                   clusters, similarity, suggestions, keywords1, keywords2>>

\* outer loop: entry i seeds a new cluster
OuterSeed ==
    /\ pc = "outer"
    /\ i <= Len(all_entries)
    /\ i \notin used
    /\ cluster' = NewCluster(all_entries[i])
    /\ used' = used \cup {i}
    /\ j' = i + 1
    /\ pc' = "inner"
    /\ UNCHANGED <<feeds_data, topic_weights, all_entries, i, clusters, similarity,
                   suggestions, keywords1, keywords2>>

\* inner loop: if j in used: continue
InnerSkip ==
    /\ pc = "inner"
    /\ j <= Len(all_entries)
    /\ j \in used
    /\ j' = j + 1
    /\ UNCHANGED <<pc, feeds_data, topic_weights, all_entries, used, i, cluster,
                   clusters, similarity, suggestions, keywords1, keywords2>>

\* the inner loop without used.add(j)
InnerCompareNoMark ==
    /\ pc = "inner"
    /\ j <= Len(all_entries)
    /\ j \notin used
    /\ similarity' = CalculateSimilarity(all_entries[i].keywords, all_entries[j].keywords)
    /\ IF FloatGt(similarity', Threshold)
       THEN cluster' = AddToCluster(cluster, all_entries[j])
       ELSE UNCHANGED cluster
    /\ j' = j + 1
    /\ UNCHANGED <<pc, feeds_data, topic_weights, all_entries, used, i, clusters,
                   suggestions, keywords1, keywords2>>

\* the inner loop comparing the source topics instead of the keywords
InnerCompareTopics ==
    /\ pc = "inner"
    /\ j <= Len(all_entries)
    /\ j \notin used
    /\ similarity' = CalculateSimilarity(all_entries[i].source_topics,
                                         all_entries[j].source_topics)
    /\ IF FloatGt(similarity', Threshold)
       THEN /\ cluster' = AddToCluster(cluster, all_entries[j])
            /\ used' = used \cup {j}
       ELSE UNCHANGED <<cluster, used>>
    /\ j' = j + 1
    /\ UNCHANGED <<pc, feeds_data, topic_weights, all_entries, i, clusters,
                   suggestions, keywords1, keywords2>>

\* the inner loop with similarity >= 0.15
InnerCompareAtLeast ==
    /\ pc = "inner"
    /\ j <= Len(all_entries)
    /\ j \notin used
    /\ similarity' = CalculateSimilarity(all_entries[i].keywords, all_entries[j].keywords)
    /\ IF ~FloatGt(Threshold, similarity')
       THEN /\ cluster' = AddToCluster(cluster, all_entries[j])
            /\ used' = used \cup {j}
       ELSE UNCHANGED <<cluster, used>>
    /\ j' = j + 1
    /\ UNCHANGED <<pc, feeds_data, topic_weights, all_entries, i, clusters,
                   suggestions, keywords1, keywords2>>

\* inner loop: compare entry j with the seed and add it above the threshold
InnerCompare ==
    /\ pc = "inner"
    /\ j <= Len(all_entries)
    /\ j \notin used
    /\ similarity' = CalculateSimilarity(all_entries[i].keywords, all_entries[j].keywords)
    /\ IF FloatGt(similarity', Threshold)
       THEN /\ cluster' = AddToCluster(cluster, all_entries[j])
            /\ used' = used \cup {j}
       ELSE UNCHANGED <<cluster, used>>
    /\ j' = j + 1
    /\ UNCHANGED <<pc, feeds_data, topic_weights, all_entries, i, clusters,
                   suggestions, keywords1, keywords2>>

\* end of the inner loop: clusters.append(cluster)
AppendCluster ==
    /\ pc = "inner"
    /\ j > Len(all_entries)
    /\ clusters' = Append(clusters, cluster)
    /\ i' = i + 1
    /\ pc' = "outer"
    /\ UNCHANGED <<feeds_data, topic_weights, all_entries, used, j, cluster,
                   similarity, suggestions, keywords1, keywords2>>

\* end of the outer loop: return clusters
ReturnClusters ==
    /\ pc = "outer"
    /\ i > Len(all_entries)
    /\ pc' = "generate_suggestions"
    /\ UNCHANGED <<feeds_data, topic_weights, all_entries, used, i, j, cluster,
                   clusters, similarity, suggestions, keywords1, keywords2>>

\* the clusters whose exact score is a tie of round()
TieClusters == {k \in 1..Len(clusters) : IsTie(clusters[k])}

\* the list of suggestions before the sort
PerCluster(ups) ==
    [k \in 1..Len(clusters) |-> Suggestion(clusters[k], k \in TieClusters /\ ups[k])]

\* generate_suggestions(clusters)
GenerateSuggestions ==
    /\ pc = "generate_suggestions"
    /\ \E ups \in [TieClusters -> BOOLEAN] :
          suggestions' = Truncate(SortByScore(PerCluster(ups)))
    /\ pc' = "done"
    /\ UNCHANGED <<feeds_data, topic_weights, all_entries, used, i, j, cluster,
                   clusters, similarity, keywords1, keywords2>>

Next ==
    \/ CollectEntries
    \/ OuterSkip
    \/ OuterSeed
    \/ InnerSkip
    \/ InnerCompare
    \/ AppendCluster
    \/ ReturnClusters
    \/ GenerateSuggestions

Spec == Init /\ [][Next]_vars

----------------------------------------------------------------------------
(* generate_suggestions called on a list of clusters                       *)

InitSuggest ==
    /\ pc = "generate_suggestions"
    /\ clusters \in ClusterInputs
    /\ topic_weights \in WeightInputs
    /\ feeds_data = <<>>
    /\ all_entries = <<>>
    /\ used = {}
    /\ i = 1
    /\ j = 1
    /\ cluster = NoCluster
    /\ similarity = Zero
    /\ suggestions = <<>>
    /\ keywords1 = <<>>
    /\ keywords2 = <<>>

NextSuggest == GenerateSuggestions

SpecSuggest == InitSuggest /\ [][NextSuggest]_vars

----------------------------------------------------------------------------
(* _calculate_similarity called on two keyword lists                       *)

InitSim ==
    /\ pc = "calculate_similarity"
    /\ keywords1 \in KeywordSeqs
    /\ keywords2 \in KeywordSeqs
    /\ topic_weights = <<>>
    /\ feeds_data = <<>>
    /\ all_entries = <<>>
    /\ used = {}
    /\ i = 1
    /\ j = 1
    /\ cluster = NoCluster
    /\ clusters = <<>>
    /\ similarity = Zero
    /\ suggestions = <<>>

\* similarity = self._calculate_similarity(keywords1, keywords2)
CallSimilarity ==
    /\ pc = "calculate_similarity"
    /\ similarity' = CalculateSimilarity(keywords1, keywords2)
    /\ pc' = "done"
    /\ UNCHANGED <<feeds_data, topic_weights, all_entries, used, i, j, cluster,
                   clusters, suggestions, keywords1, keywords2>>

NextSim == CallSimilarity

SpecSim == InitSim /\ [][NextSim]_vars

----------------------------------------------------------------------------
(* Properties                                                              *)

\* cluster_topics has returned
Returned == pc \in {"generate_suggestions", "done"}

Ids(c) == {c.entries[m].id : m \in 1..Len(c.entries)}

RECURSIVE SumSizes(_)
SumSizes(cs) == IF cs = <<>> THEN 0 ELSE Len(Head(cs).entries) + SumSizes(Tail(cs))

\* _calculate_similarity of the entries at positions a and b
SimAt(a, b) == CalculateSimilarity(all_entries[a].keywords, all_entries[b].keywords)

KeywordSet(a) == Range(all_entries[a].keywords)

\* the index of the cluster that holds the entry at position a
ClusterOf(a) == CHOOSE k \in 1..Len(clusters) : a \in Ids(clusters[k])

\* the position of the seed of cluster k
SeedOf(k) == clusters[k].entries[1].id

\* C1: when cluster_topics returns, every input entry is in exactly one
\* cluster and exactly once in it, the cluster sizes add up to the number
\* of input entries, and no cluster is empty.
C1_Partition ==
    Returned =>
        /\ \A e \in 1..Len(all_entries) :
              Cardinality({km \in UNION {{<<k, m>> : m \in 1..Len(clusters[k].entries)} :
                                            k \in 1..Len(clusters)} :
                              clusters[km[1]].entries[km[2]].id = e}) = 1
        /\ \A k \in 1..Len(clusters) :
              /\ Len(clusters[k].entries) >= 1
              /\ \A m \in 1..Len(clusters[k].entries) :
                    /\ clusters[k].entries[m].id \in 1..Len(all_entries)
                    /\ clusters[k].entries[m] = all_entries[clusters[k].entries[m].id]
        /\ SumSizes(clusters) = Len(all_entries)

C1_Witness ==
    /\ pc = "done"
    /\ Len(all_entries) = 3
    /\ Len(clusters) = 2
    /\ \E k \in 1..2 : Len(clusters[k].entries) = 2

\* C3 as stated: two entries whose keyword sets share no token are never in
\* the same cluster.
C3_NoSharedTokenNeverTogether ==
    Returned =>
        \A a, b \in 1..Len(all_entries) :
            (a # b /\ KeywordSet(a) \cap KeywordSet(b) = {}) => ClusterOf(a) # ClusterOf(b)

\* C3 amended: an entry whose keyword set shares no token with the seed of
\* a cluster is never in that cluster, whatever source topics they share.
C3_NoSharedTokenWithSeed ==
    Returned =>
        \A a, b \in 1..Len(all_entries) :
            (a # b /\ KeywordSet(a) \cap KeywordSet(b) = {} /\ a = SeedOf(ClusterOf(a)))
                => ClusterOf(a) # ClusterOf(b)

C3_Witness ==
    /\ pc = "done"
    /\ \E a, b \in 1..Len(all_entries) :
          /\ a < b
          /\ all_entries[a].source_topics = all_entries[b].source_topics
          /\ all_entries[a].source_topics # <<>>
          /\ KeywordSet(a) # {}
          /\ KeywordSet(b) # {}
          /\ KeywordSet(a) \cap KeywordSet(b) = {}
          /\ a = SeedOf(ClusterOf(a))
          /\ ClusterOf(a) # ClusterOf(b)

\* C4 as stated: in the two-entry scenario the angle of the suggestion is
\* the AI/telecom-bridge string.
C4_ScenarioAngleBridge ==
    (pc = "done" /\ feeds_data = ScenarioFeeds) =>
        /\ Len(suggestions) = 1
        /\ suggestions[1].angle = AngleBridge

\* C4 amended: in the two-entry scenario the entries merge into one cluster
\* of topics {ai, telecom, dev-tools} and the angle of the suggestion is
\* the cross-domain AI/voice string of rule 1.
C4_ScenarioAngleVoiceAI ==
    (pc = "done" /\ feeds_data = ScenarioFeeds) =>
        /\ Len(clusters) = 1
        /\ clusters[1].topics = {"ai", "telecom", "dev-tools"}
        /\ Len(suggestions) = 1
        /\ suggestions[1].angle = AngleVoiceAI

C4_Witness ==
    /\ pc = "done"
    /\ feeds_data = ScenarioFeeds
    /\ Len(clusters) = 1
    /\ Len(clusters[1].entries) = 2

\* the cluster a suggestion was built from
SourceCluster(r) ==
    CHOOSE k \in 1..Len(clusters) : clusters[k].entries = suggestions[r].entries

VoiceTopics == {"voip", "telecom", "vcon", "voice-intelligence"}
AITopics == {"ai", "llm", "ai-agents"}

\* C5: the angle follows the priority rule: a voice/telecom topic gives the
\* cross-domain angle with "ai" and the VoIP angle without; otherwise an AI
\* topic gives the developer angle with "dev-tools" and the bridge angle
\* without; otherwise the generic angle.
C5_AnglePriority ==
    pc = "done" =>
        \A r \in 1..Len(suggestions) :
            LET T == clusters[SourceCluster(r)].topics
                angle == suggestions[r].angle
            IN  /\ (T \cap VoiceTopics # {} /\ "ai" \in T) => angle = AngleVoiceAI
                /\ (T \cap VoiceTopics # {} /\ "ai" \notin T) => angle = AngleVoip
                /\ (T \cap VoiceTopics = {} /\ T \cap AITopics # {} /\ "dev-tools" \in T)
                      => angle = AngleDevTools
                /\ (T \cap VoiceTopics = {} /\ T \cap AITopics # {} /\ "dev-tools" \notin T)
                      => angle = AngleBridge
                /\ (T \cap VoiceTopics = {} /\ T \cap AITopics = {}) => angle = AngleGeneric

C5_Witness ==
    /\ pc = "done"
    /\ Len(suggestions) = 1
    /\ clusters[1].topics = {"voice-intelligence", "llm", "dev-tools"}
    /\ suggestions[1].angle = AngleVoip

Unweighted(c) == \A t \in c.topics : t \notin DOMAIN topic_weights

RECURSIVE TopicTenths(_)
TopicTenths(T) ==
    IF T = {} THEN 0
    ELSE LET t == CHOOSE x \in T : TRUE
         IN  (IF t \in DOMAIN topic_weights THEN topic_weights[t] ELSE 3) + TopicTenths(T \ {t})

\* C6: the score is topic_score * (1 + 0.3 * (|sources| - 1)) *
\* (1 + 0.1 * (|entries| - 1)) rounded to the nearest hundredth, topic_score
\* being the mean topic weight (0.3 for an unlisted topic or no topic); it
\* is >= 0, 0.3 for 1 entry, 1 source and only unweighted topics, and 0.43
\* for 2 entries, 2 sources and only unweighted topics.
C6_Score ==
    pc = "done" =>
        \A r \in 1..Len(suggestions) :
            LET c == clusters[SourceCluster(r)]
                n == Cardinality(c.topics)
                s == Cardinality(c.sources)
                e == Len(c.entries)
                score == suggestions[r].score
                \* the exact product in hundredths is x / y
                x == (IF n = 0 THEN 3 ELSE TopicTenths(c.topics)) * (7 + 3 * s) * (9 + e)
                y == 10 * (IF n = 0 THEN 1 ELSE n)
            IN  /\ 2 * (score * y - x) <= y
                /\ 2 * (x - score * y) <= y
                /\ score >= 0
                /\ (e = 1 /\ s = 1 /\ Unweighted(c)) => score = 30
                /\ (e = 2 /\ s = 2 /\ Unweighted(c)) => score = 43

C6_Witness ==
    /\ pc = "done"
    /\ topic_weights = <<>>
    /\ \E r \in 1..Len(suggestions) :
          /\ Len(suggestions[r].entries) = 2
          /\ Len(suggestions[r].sources) = 2
          /\ suggestions[r].score = 43
    /\ \E r \in 1..Len(suggestions) :
          /\ Len(suggestions[r].entries) = 1
          /\ suggestions[r].topics # <<>>
          /\ suggestions[r].score = 30

\* the score of cluster k if it is below every kept suggestion in the
\* stable descending order
RanksBelowKept(k, sc) ==
    \A r \in 1..Len(suggestions) :
        \/ sc < suggestions[r].score
        \/ sc = suggestions[r].score /\ k > SourceCluster(r)

\* C2: generate_suggestions returns the first min(5, n) per-cluster
\* suggestions in stable descending score order: at most 5, scores
\* non-increasing, equal scores in cluster order, nothing dropped that
\* scores above (or equal to and before) a kept suggestion.
C2_TopFiveStable ==
    pc = "done" =>
        LET n == Len(clusters)
            m == Len(suggestions)
            kept == {SourceCluster(r) : r \in 1..m}
        IN  /\ m = (IF n < 5 THEN n ELSE 5)
            /\ m <= 5
            /\ \A r \in 1..m :
                  /\ \E k \in 1..n : clusters[k].entries = suggestions[r].entries
                  /\ \E up \in BOOLEAN :
                        suggestions[r] = Suggestion(clusters[SourceCluster(r)], up)
            /\ Cardinality(kept) = m
            /\ \A r1, r2 \in 1..m :
                  r1 < r2 =>
                      /\ suggestions[r1].score >= suggestions[r2].score
                      /\ suggestions[r1].score = suggestions[r2].score
                            => SourceCluster(r1) < SourceCluster(r2)
            /\ \A k \in (1..n) \ kept :
                  \E up \in BOOLEAN : RanksBelowKept(k, ScoreCluster(clusters[k], up))

C2_Witness ==
    /\ pc = "done"
    /\ Len(clusters) = 6
    /\ Len(suggestions) = 5
    /\ suggestions[1].score > suggestions[2].score
    /\ suggestions[2].score = suggestions[3].score
    /\ SourceCluster(1) > SourceCluster(2)
    /\ \E k \in 1..6 :
          /\ \A r \in 1..5 : SourceCluster(r) # k
          /\ k < SourceCluster(5)

\* C7 as stated: an entry with an empty summary has an empty keyword set,
\* similarity 0.0 to every other entry and a cluster of its own.
C7_EmptySummaryIsolated ==
    pc = "done" =>
        \A a \in 1..Len(all_entries) :
            all_entries[a].summary = "" =>
                /\ all_entries[a].keywords = <<>>
                /\ \A b \in (1..Len(all_entries)) \ {a} : FloatEq(SimAt(a, b), Zero)
                /\ Ids(clusters[ClusterOf(a)]) = {a}

\* C7 amended: an entry with an empty summary whose title holds no keyword
\* has an empty keyword set, similarity 0.0 to every other entry and a
\* cluster of its own.
C7_NoKeywordsIsolated ==
    pc = "done" =>
        \A a \in 1..Len(all_entries) :
            (all_entries[a].summary = "" /\ ExtractKeywords(all_entries[a].title) = <<>>) =>
                /\ all_entries[a].keywords = <<>>
                /\ \A b \in (1..Len(all_entries)) \ {a} :
                      /\ FloatEq(SimAt(a, b), Zero)
                      /\ FloatEq(SimAt(b, a), Zero)
                /\ Ids(clusters[ClusterOf(a)]) = {a}

C7_Witness ==
    /\ pc = "done"
    /\ Len(all_entries) = 3
    /\ all_entries[1].keywords # <<>>
    /\ all_entries[2].summary = ""
    /\ all_entries[2].keywords = <<>>
    /\ all_entries[3].summary = ""
    /\ all_entries[3].keywords = <<>>
    /\ Len(clusters) = 3

\* C8: _calculate_similarity is the Jaccard index of the distinct-token
\* sets: symmetric, 1.0 on equal non-empty sets, 0.0 when either list is
\* empty, within [0.0, 1.0], unchanged by repeating a token.
C8_Jaccard ==
    pc = "done" =>
        LET A == Range(keywords1)
            B == Range(keywords2)
        IN  /\ similarity.den > 0
            /\ FloatEq(similarity, CalculateSimilarity(keywords2, keywords1))
            /\ similarity.num >= 0
            /\ similarity.num <= similarity.den
            /\ (A = {} \/ B = {}) => similarity.num = 0
            /\ (A # {} /\ B # {}) =>
                  similarity.num * Cardinality(A \cup B) = Cardinality(A \cap B) * similarity.den
            /\ (A # {} /\ A = B) => similarity.num = similarity.den
            /\ \A w \in A :
                  FloatEq(similarity, CalculateSimilarity(Append(keywords1, w), keywords2))
            /\ \A w \in B :
                  FloatEq(similarity, CalculateSimilarity(keywords1, <<w>> \o keywords2))

C8_Witness ==
    /\ pc = "done"
    /\ Len(keywords1) = 3
    /\ Cardinality(Range(keywords1)) = 2
    /\ Range(keywords2) # Range(keywords1)
    /\ similarity.num = 1
    /\ similarity.den = 3

Seeds == {SeedOf(k) : k \in 1..Len(clusters)}

\* C9: an entry is a seed iff its similarity to every earlier seed is at
\* most 0.15, and it is a non-seed member of the cluster seeded at an
\* earlier position iff that is the earliest seed more than 0.15 similar
\* to it; the similarity of two non-seed members plays no part.
C9_FirstFitToSeed ==
    Returned =>
        \A b \in 1..Len(all_entries) :
            LET close == {a \in Seeds : a < b /\ FloatGt(SimAt(a, b), Threshold)}
            IN  /\ b \in Seeds <=> close = {}
                /\ \A k \in 1..Len(clusters) :
                      (b \in Ids(clusters[k]) /\ b # SeedOf(k))
                          <=> (SeedOf(k) \in close /\ \A a \in close : SeedOf(k) <= a)

C9_Witness ==
    /\ pc = "done"
    /\ Len(all_entries) = 3
    /\ Len(clusters) = 2
    /\ FloatEq(SimAt(1, 2), Threshold)
    /\ Ids(clusters[1]) = {1, 3}
    /\ FloatGt(SimAt(2, 3), Threshold)

====
